---- MODULE Spec2Model ----
(***************************************************************************)
(* Model of DogMidiSystem (src/dog_midi_system.py): loading the reference  *)
(* melody, the session life cycle (start / stop / listener worker), the    *)
(* sequential melody cursor and the deferred note-off timers.              *)
(*                                                                         *)
(* Representation of Python values:                                        *)
(*   - seconds are integers in milliseconds, beats are integers in         *)
(*     thousandths of a beat; the tempi and start times the model draws    *)
(*     (60, 120 BPM, multiples of 250 ms) make every float operation of    *)
(*     the source exact, so the integer arithmetic is the source's;        *)
(*   - None is the integer None (-1) where the slot otherwise holds a      *)
(*     number, and the string "None" where it holds a device handle;       *)
(*   - a pygame.midi handle is "open" or "closed": the attribute keeps the *)
(*     (truthy) handle object after close(); an input handle is "failed"   *)
(*     when it is open and its device has failed.                          *)
(***************************************************************************)
EXTENDS Integers, Sequences, FiniteSets, Bags, TLC

VARIABLES
    midi_data,       \* what pretty_midi finds at self.midi_file_path
    constructed,     \* __init__ has run
    load_failed,     \* load_midi_file took its except branch ("Error loading MIDI file")
    original_notes,  \* self.original_notes
    tempo,           \* self.tempo
    timing_tolerance,        \* self.timing_tolerance, in ms
    pitch_correction_range,  \* self.pitch_correction_range, in semitones
    randomness_factor,       \* self.randomness_factor, in thousandths
    is_playing,      \* self.is_playing
    start_time,      \* self.start_time (ms) or None
    midi_input,      \* self.midi_input: "None", "open", "closed", "failed" (open, device gone)
    midi_output,     \* self.midi_output: "None", "open", "closed"
    midi_inited,     \* pygame.midi subsystem initialised (init() .. quit())
    melody_index,    \* self.melody_index, None while the attribute does not exist
    now,             \* time.time(), in clock ticks
    in_buffer,       \* messages waiting in the input device
    sent_on,         \* bag of (note, velocity) note-ons written to the output device
    sent_off,        \* bag of pitches of the note-offs written to the output device
    timers,          \* bag of pitches with a threading.Timer note-off pending
    timer_failed,    \* number of timer threads that died on an exception
    thr,             \* per thread: program counter and locals
    spawned,         \* number of listener threads started so far
    in_start,        \* number of callers inside start()'s display loop
    api_result,      \* outcome of the last completed public call
    start_fails,     \* history: start() calls refused for lack of an input device
    stop_calls,      \* history: number of stop() calls
    events,          \* history: number of device messages and direct calls so far
    selected,        \* history: cursor value read by line 231, per call, in order
    completed,       \* history: number of finished cursor updates (line 232)
    twin             \* two runs of process_input_note from this session's state, side by side

loadVars == <<midi_data, constructed, load_failed, original_notes, tempo>>
cfgVars  == <<timing_tolerance, pitch_correction_range, randomness_factor>>
devVars  == <<midi_input, midi_output, midi_inited>>
histVars == <<start_fails, stop_calls, events, selected, completed>>
vars == <<midi_data, constructed, load_failed, original_notes, tempo,
          timing_tolerance, pitch_correction_range, randomness_factor, is_playing,
          start_time, midi_input, midi_output, midi_inited, melody_index, now,
          in_buffer, sent_on, sent_off, timers, timer_failed, thr, spawned, in_start,
          api_result, start_fails, stop_calls, events, selected, completed, twin>>

None == 0 - 1

(***************************************************************************)
(* Bounds of the model.                                                    *)
(***************************************************************************)
MaxInstruments == 2   \* instruments in a decoded file
MaxNotes       == 2   \* notes in a decoded file, over all its instruments
MaxWorkers     == 2   \* successful start() calls, hence listener threads
MaxStops       == 2   \* stop() calls
MaxEvents      == 3   \* triggers: messages of the input device and direct calls
MaxQueue       == 2   \* messages waiting in the input device
MaxTime        == 3   \* clock ticks
TickMs         == 250 \* length of a clock tick in ms

(***************************************************************************)
(* Program constants.                                                      *)
(***************************************************************************)
DefaultTempo   == 120                       \* self.tempo = 120
beats_per_bar  == 4                         \* self.time_signature[0]
FallbackVelocity == 80
FallbackRepeats  == 4
c_major_scale  == <<60, 62, 64, 65, 67, 69, 71, 72>>
ReadBatch      == 10                        \* self.midi_input.read(10)
DefaultTimingTolerance == 500               \* self.timing_tolerance = 0.5 s, in ms
DefaultPitchRange == 12                     \* self.pitch_correction_range = 12
DefaultRandomness == 100                    \* self.randomness_factor = 0.1, in thousandths

(***************************************************************************)
(* NoteEvent and the arithmetic of bar and beat.                           *)
(***************************************************************************)
NoteEvent(note, velocity, start, duration, bar, beat) ==
    [note |-> note, velocity |-> velocity, start_time |-> start,
     duration |-> duration, bar |-> bar, beat |-> beat]

\* beat_duration = 60.0 / self.tempo, in ms
beat_duration(t) == (60 * 1000) \div t

\* total_beats = seconds / beat_duration, in thousandths of a beat
total_beats(ms, t) == (ms * 1000) \div beat_duration(t)

\* bar = int(total_beats // beats_per_bar)
bar_of(tb) == tb \div (beats_per_bar * 1000)

\* beat = total_beats % beats_per_bar
beat_of(tb) == tb % (beats_per_bar * 1000)

(***************************************************************************)
(* What the decoder can return: unreadable (PrettyMIDI raises), or a list  *)
(* of tempi and instruments, each instrument a drum flag and a note list.  *)
(***************************************************************************)
RawNote(pitch, velocity, start, end) ==
    [pitch |-> pitch, velocity |-> velocity, start |-> start, end |-> end]

RawNotes == { RawNote(60, 80, 500, 1000), RawNote(72, 100, 500, 1000),
              RawNote(64, 80, 2500, 3000) }

TempoArrays == { <<60>>, <<120>>, <<120, 60>> }

SeqsUpTo(S, n) == UNION { [1..k -> S] : k \in 0..n }

RECURSIVE NoteCount(_)
NoteCount(instruments) ==
    IF instruments = <<>> THEN 0
    ELSE Len(Head(instruments).notes) + NoteCount(Tail(instruments))

Instruments == [is_drum : BOOLEAN, notes : SeqsUpTo(RawNotes, MaxNotes)]

InstrumentLists ==
    { i \in SeqsUpTo(Instruments, MaxInstruments) : NoteCount(i) <= MaxNotes }

Unreadable == [readable |-> FALSE, tempi |-> <<>>, instruments |-> <<>>]

MidiFiles ==
    {Unreadable} \cup [readable : {TRUE}, tempi : TempoArrays, instruments : InstrumentLists]

(***************************************************************************)
(* load_midi_file and create_fallback_melody.                              *)
(***************************************************************************)
\* lines 66-83: one decoded note becomes one NoteEvent
note_event_of(n, t) ==
    NoteEvent(n.pitch, n.velocity, n.start, n.end - n.start,
              bar_of(total_beats(n.start, t)), beat_of(total_beats(n.start, t)))

\* lines 64-83: the notes of the instruments that are not drums, in file order
RECURSIVE extract_notes(_, _)
extract_notes(instruments, t) ==
    IF instruments = <<>> THEN <<>>
    ELSE LET i == Head(instruments)
             own == IF i.is_drum THEN <<>>
                    ELSE [k \in 1..Len(i.notes) |-> note_event_of(i.notes[k], t)]
         IN  own \o extract_notes(Tail(instruments), t)

\* a sort that places an element before the elements of equal key (not stable)
insert_before_equal(sorted, x) ==
    LET before == Cardinality({k \in 1..Len(sorted) : sorted[k].start_time < x.start_time})
    IN  SubSeq(sorted, 1, before) \o <<x>> \o SubSeq(sorted, before + 1, Len(sorted))

\* list.sort places an element after every element whose key is not larger
insert_by_start_time(sorted, x) ==
    LET before == Cardinality({k \in 1..Len(sorted) : sorted[k].start_time <= x.start_time})
    IN  SubSeq(sorted, 1, before) \o <<x>> \o SubSeq(sorted, before + 1, Len(sorted))

\* line 86: self.original_notes.sort(key=lambda x: x.start_time), a stable sort
RECURSIVE sort_by_start_time(_)
sort_by_start_time(s) ==
    IF s = <<>> THEN <<>>
    ELSE insert_by_start_time(sort_by_start_time(SubSeq(s, 1, Len(s) - 1)), s[Len(s)])

\* lines 101-113: the i-th (from 0) note of the fallback melody
fallback_note(i, t) ==
    NoteEvent(c_major_scale[(i % 8) + 1], FallbackVelocity, i * beat_duration(t),
              (beat_duration(t) * 8) \div 10, i \div 8, ((i % 8) * 1000) \div 2)

\* a fallback that repeats the scale one time too few
create_fallback_melody_short(notes, t) ==
    notes \o [k \in 1..(Len(c_major_scale) * (FallbackRepeats - 1)) |-> fallback_note(k - 1, t)]

\* lines 95-114: appends the scale, repeated, to the notes already there
create_fallback_melody(notes, t) ==
    notes \o [k \in 1..(Len(c_major_scale) * FallbackRepeats) |-> fallback_note(k - 1, t)]

\* line 60: `if tempi:` on a numpy array raises ValueError when it holds more than
\* one element, which lands in the except branch of line 90 like a decoder failure
load_raises(data) == ~data.readable \/ Len(data.tempi) > 1

\* lines 54-93: the melody, the tempo and whether the except branch ran
load_midi_file(data, t) ==
    IF load_raises(data)
    THEN [notes |-> create_fallback_melody(<<>>, t), tempo |-> t, failed |-> TRUE]
    ELSE LET t2 == IF Len(data.tempi) = 1 /\ data.tempi[1] # 0 THEN data.tempi[1] ELSE t
         IN  [notes |-> sort_by_start_time(extract_notes(data.instruments, t2)),
              tempo |-> t2, failed |-> FALSE]

(***************************************************************************)
(* Threads: 0 is a caller using the public methods directly, 1..MaxWorkers *)
(* are the listener threads start() creates.                               *)
(***************************************************************************)
Api     == 0
Workers == 1..MaxWorkers
Threads == {Api} \cup Workers

NoResult == [op |-> "none", exc |-> "none", bar |-> None, beat |-> None]
Result(op, exc) == [op |-> op, exc |-> exc, bar |-> None, beat |-> None]

\* a thread: its position, the batch it still has to go through, and the frame of its
\* process_input_note call: the arguments (input_note, velocity) and the two locals
FreshThread(pc) ==
    [pc |-> pc, batch |-> <<>>, input |-> <<>>, note_event |-> None, idx |-> None]

\* a run of process_input_note calls by a single caller: the cursor, the note-ons
\* written in order, and the arguments it was given, in order
FreshRun == [melody_index |-> None, sent |-> <<>>, inputs |-> <<>>]

\* lines 29-48: the attributes __init__ sets before it loads the file
Fields(data) ==
    /\ midi_data = data
    /\ twin = [a |-> FreshRun, b |-> FreshRun]
    /\ timing_tolerance = DefaultTimingTolerance
    /\ pitch_correction_range = DefaultPitchRange
    /\ randomness_factor = DefaultRandomness
    /\ is_playing = FALSE
    /\ start_time = None
    /\ melody_index = None
    /\ now = 1
    /\ in_buffer = <<>>
    /\ sent_on = EmptyBag
    /\ sent_off = EmptyBag
    /\ timers = EmptyBag
    /\ timer_failed = 0
    /\ thr = [t \in Threads |-> FreshThread(IF t = Api THEN "idle" ELSE "unborn")]
    /\ spawned = 0
    /\ in_start = 0
    /\ api_result = NoResult
    /\ start_fails = 0
    /\ stop_calls = 0
    /\ events = 0
    /\ selected = <<>>
    /\ completed = 0

\* lines 116-154: the first input and the first output device, when there is one
setup_midi_devices(has_input, has_output) ==
    [input  |-> IF has_input THEN "open" ELSE "None",
     output |-> IF has_output THEN "open" ELSE "None"]

(***************************************************************************)
(* SpecLoad: the constructor's load, over every file of MidiFiles.         *)
(***************************************************************************)
InitLoad ==
    /\ \E data \in MidiFiles : Fields(data)
    /\ constructed = FALSE
    /\ load_failed = FALSE
    /\ original_notes = <<>>
    /\ tempo = DefaultTempo
    /\ midi_inited = FALSE
    /\ midi_input = "None"
    /\ midi_output = "None"

\* lines 29-52: __init__ on a file that decodes
ConstructDecoded ==
    /\ ~constructed
    /\ ~load_raises(midi_data)
    /\ LET r == load_midi_file(midi_data, tempo)
       IN  /\ original_notes' = original_notes \o r.notes
           /\ tempo' = r.tempo
           /\ load_failed' = r.failed
    /\ constructed' = TRUE
    /\ midi_inited' = TRUE
    /\ \E has_input \in BOOLEAN, has_output \in BOOLEAN :
          /\ midi_input' = setup_midi_devices(has_input, has_output).input
          /\ midi_output' = setup_midi_devices(has_input, has_output).output
    /\ UNCHANGED <<cfgVars, twin, midi_data, is_playing, start_time, melody_index, now, in_buffer,
                   sent_on, sent_off, timers, timer_failed, thr, spawned, in_start, api_result>>
    /\ UNCHANGED histVars

\* lines 29-52: __init__ on a file whose load raises
ConstructFallback ==
    /\ ~constructed
    /\ load_raises(midi_data)
    /\ LET r == load_midi_file(midi_data, tempo)
       IN  /\ original_notes' = original_notes \o r.notes
           /\ tempo' = r.tempo
           /\ load_failed' = r.failed
    /\ constructed' = TRUE
    /\ midi_inited' = TRUE
    /\ \E has_input \in BOOLEAN, has_output \in BOOLEAN :
          /\ midi_input' = setup_midi_devices(has_input, has_output).input
          /\ midi_output' = setup_midi_devices(has_input, has_output).output
    /\ UNCHANGED <<cfgVars, twin, midi_data, is_playing, start_time, melody_index, now, in_buffer,
                   sent_on, sent_off, timers, timer_failed, thr, spawned, in_start, api_result>>
    /\ UNCHANGED histVars

NextLoad == ConstructDecoded \/ ConstructFallback

SpecLoad == InitLoad /\ [][NextLoad]_vars

(***************************************************************************)
(* Spec: the live session. Init is the object __init__ leaves, for a few   *)
(* files and every combination of devices. The clock stands still and the  *)
(* callers of start() stay in its display loop; SpecClock runs both.       *)
(***************************************************************************)
TwoNotes ==
    [readable |-> TRUE, tempi |-> <<120>>,
     instruments |-> << [is_drum |-> FALSE,
                         notes |-> << RawNote(60, 80, 500, 1000), RawNote(64, 80, 2500, 3000) >>] >>]

NoNotes == [readable |-> TRUE, tempi |-> <<120>>, instruments |-> <<>>]

SessionFiles == {TwoNotes, NoNotes}

\* raw messages (status, data1, data2) the input device can produce
InputMessages == { <<144, 60, 100>>, <<159, 62, 0>>, <<128, 60, 64>>, <<176, 7, 100>> }

\* what random.random() (in thousandths) and the two random.randint calls return
RandomDraws == { [u |-> 0, dn |-> 2, dv |-> 0 - 10], [u |-> 500, dn |-> 0, dv |-> 0] }

Init ==
    \E data \in SessionFiles, has_input \in BOOLEAN, has_output \in BOOLEAN :
        /\ Fields(data)
        /\ constructed = TRUE
        /\ original_notes = load_midi_file(data, DefaultTempo).notes
        /\ tempo = load_midi_file(data, DefaultTempo).tempo
        /\ load_failed = load_midi_file(data, DefaultTempo).failed
        /\ midi_inited = TRUE
        /\ midi_input = setup_midi_devices(has_input, has_output).input
        /\ midi_output = setup_midi_devices(has_input, has_output).output

Max(a, b) == IF a > b THEN a ELSE b
Min(a, b) == IF a < b THEN a ELSE b

\* a position computed from the epoch when no start instant is set
get_current_position_unguarded(st, t_ms, tp) ==
    LET tb == total_beats(t_ms - (IF st = None THEN 0 ELSE st), tp)
    IN  <<bar_of(tb), beat_of(tb)>>

\* lines 156-169: (bar, beat) for a start instant, a clock reading (ms) and a tempo
get_current_position(st, t_ms, tp) ==
    IF st = None \/ st = 0
    THEN <<0, 0>>
    ELSE LET tb == total_beats(t_ms - st, tp)
         IN  <<bar_of(tb), beat_of(tb)>>

\* a variation also applied when the random value equals the factor
apply_randomness_inclusive(note, velocity, draw) ==
    IF draw.u <= randomness_factor
    THEN <<Max(0, Min(127, note + draw.dn)), Max(1, Min(127, velocity + draw.dv))>>
    ELSE <<note, velocity>>

\* a variation added without the clamps
apply_randomness_unclamped(note, velocity, draw) ==
    IF draw.u < randomness_factor
    THEN <<note + draw.dn, velocity + draw.dv>>
    ELSE <<note, velocity>>

\* lines 207-218: the (note, velocity) pair after the optional variation
apply_randomness(note, velocity, draw) ==
    IF draw.u < randomness_factor
    THEN <<Max(0, Min(127, note + draw.dn)), Max(1, Min(127, velocity + draw.dv))>>
    ELSE <<note, velocity>>

\* an advance that stays on the last note instead of wrapping
next_index_clamped(idx, n) == IF idx + 1 >= n THEN idx ELSE idx + 1

\* line 232: the cursor after one advance over a melody of n notes
next_index(idx, n) == (idx + 1) % n

\* pygame.midi checks that the subsystem is initialised in close() and poll(), and
\* that the stream is open in poll(), read() and the note writes; poll() and read()
\* also raise what the device reports
close_raises == ~midi_inited
poll_raises  == ~midi_inited \/ midi_input \in {"closed", "failed"}
read_raises  == midi_input \in {"closed", "failed"}
write_raises == midi_output = "closed"

(***************************************************************************)
(* The environment: the clock and the input device.                        *)
(***************************************************************************)
Tick ==
    /\ now < MaxTime
    /\ now' = now + 1
    /\ UNCHANGED <<loadVars, cfgVars, twin, devVars, histVars, is_playing, start_time, melody_index,
                   in_buffer, sent_on, sent_off, timers, timer_failed, thr, spawned, in_start,
                   api_result>>

DeviceRecv ==
    /\ midi_input = "open"
    /\ events < MaxEvents
    /\ Len(in_buffer) < MaxQueue
    /\ \E m \in InputMessages : in_buffer' = Append(in_buffer, m)
    /\ events' = events + 1
    /\ UNCHANGED <<loadVars, cfgVars, twin, devVars, is_playing, start_time, melody_index, now, sent_on, sent_off,
                   timers, timer_failed, thr, spawned, in_start, api_result,
                   start_fails, stop_calls, selected, completed>>

(***************************************************************************)
(* start, stop and get_current_position.                                   *)
(***************************************************************************)
\* lines 269-271: no input device: a message is printed and start() returns None
StartRefused ==
    /\ midi_input = "None"
    /\ start_fails < MaxWorkers
    /\ start_fails' = start_fails + 1
    /\ api_result' = Result("start", "none")
    /\ UNCHANGED <<loadVars, cfgVars, twin, devVars, is_playing, start_time, melody_index, now,
                   in_buffer, sent_on, sent_off, timers, timer_failed, thr, spawned, in_start,
                   stop_calls, events, selected, completed>>

\* lines 273-282: the flag, the start instant and a new listener thread; the caller
\* then stays in the display loop of lines 285-288, which only reads and prints
StartOk ==
    /\ midi_input # "None"
    /\ spawned < MaxWorkers
    /\ is_playing' = TRUE
    /\ start_time' = now * TickMs
    /\ spawned' = spawned + 1
    /\ thr' = [thr EXCEPT ![spawned + 1] = FreshThread("while")]
    /\ in_start' = in_start + 1
    /\ UNCHANGED <<loadVars, cfgVars, twin, devVars, histVars, melody_index, now, in_buffer, sent_on, sent_off,
                   timers, timer_failed, api_result>>

\* line 285: the display loop ends once is_playing is false, and start() returns None
StartReturn ==
    /\ in_start > 0
    /\ ~is_playing
    /\ in_start' = in_start - 1
    /\ api_result' = Result("start", "none")
    /\ UNCHANGED <<loadVars, cfgVars, twin, devVars, histVars, is_playing, start_time, melody_index,
                   now, in_buffer, sent_on, sent_off, timers, timer_failed, thr, spawned>>

\* lines 292-300 when no close() raises: both handles closed, the subsystem quit
StopCompletes ==
    /\ stop_calls < MaxStops
    /\ (midi_input = "None" /\ midi_output = "None") \/ ~close_raises
    /\ is_playing' = FALSE
    /\ midi_input' = IF midi_input = "None" THEN "None" ELSE "closed"
    /\ midi_output' = IF midi_output = "None" THEN "None" ELSE "closed"
    /\ midi_inited' = FALSE
    /\ stop_calls' = stop_calls + 1
    /\ api_result' = Result("stop", "none")
    /\ UNCHANGED <<loadVars, cfgVars, twin, start_time, melody_index, now, in_buffer, sent_on, sent_off, timers,
                   timer_failed, thr, spawned, in_start, start_fails, events, selected,
                   completed>>

\* lines 292-296/298 when the first close() raises: the flag is cleared and the
\* RuntimeError leaves stop()
StopRaises ==
    /\ stop_calls < MaxStops
    /\ (midi_input # "None" \/ midi_output # "None") /\ close_raises
    /\ is_playing' = FALSE
    /\ stop_calls' = stop_calls + 1
    /\ api_result' = Result("stop", "RuntimeError")
    /\ UNCHANGED <<loadVars, cfgVars, twin, devVars, start_time, melody_index, now, in_buffer, sent_on, sent_off,
                   timers, timer_failed, thr, spawned, in_start, start_fails, events,
                   selected, completed>>

\* lines 156-169, called through the public method
GetCurrentPosition ==
    /\ LET p == get_current_position(start_time, now * TickMs, tempo)
       IN  api_result' = [op |-> "get_current_position", exc |-> "none",
                          bar |-> p[1], beat |-> p[2]]
    /\ UNCHANGED <<loadVars, cfgVars, twin, devVars, histVars, is_playing, start_time, melody_index,
                   now, in_buffer, sent_on, sent_off, timers, timer_failed, thr, spawned, in_start>>

(***************************************************************************)
(* process_input_note, one step per access to shared state. The interpreter *)
(* may switch threads between any two of them.                             *)
(***************************************************************************)
\* where a thread goes when process_input_note returns: a direct caller has its
\* result; a listener goes on with its batch or, the batch done, sleeps (line 265)
\* and is back at line 252; an exception ends the thread
Returned(t, exc) ==
    IF t = Api THEN [thr[t] EXCEPT !.pc = "idle", !.input = <<>>]
    ELSE IF exc # "none" THEN [thr[t] EXCEPT !.pc = "dead", !.batch = <<>>, !.input = <<>>]
    ELSE [thr[t] EXCEPT !.pc = IF thr[t].batch = <<>> THEN "while" ELSE "event",
                        !.input = <<>>]

ResultAfter(t, exc) ==
    IF t = Api THEN Result("process_input_note", exc) ELSE api_result

\* lines 224-228 for a thread that enters the method: the hasattr test, and when the
\* attribute exists the emptiness test
Entered(t) ==
    IF melody_index = None THEN [thr[t] EXCEPT !.pc = "p225"]
    ELSE IF original_notes = <<>> THEN Returned(t, "none")
    ELSE [thr[t] EXCEPT !.pc = "p231"]

\* the (input_note, velocity) pairs a direct caller passes
DirectInputs == { <<60, 100>>, <<72, 1>> }

\* a direct call of the public method
CallDirect ==
    /\ thr[Api].pc = "idle"
    /\ events < MaxEvents
    /\ events' = events + 1
    /\ \E input \in DirectInputs :
          thr' = [thr EXCEPT ![Api] = IF Entered(Api).pc = "idle" THEN Entered(Api)
                                      ELSE [Entered(Api) EXCEPT !.input = input]]
    /\ api_result' = IF melody_index # None /\ original_notes = <<>>
                     THEN ResultAfter(Api, "none") ELSE api_result
    /\ UNCHANGED <<loadVars, cfgVars, twin, devVars, is_playing, start_time, melody_index, now,
                   in_buffer, sent_on, sent_off, timers, timer_failed, spawned, in_start,
                   start_fails, stop_calls, selected, completed>>

\* line 225, then lines 226-228
P225(t) ==
    /\ thr[t].pc = "p225"
    /\ melody_index' = 0
    /\ thr' = [thr EXCEPT ![t] = IF original_notes = <<>> THEN Returned(t, "none")
                                 ELSE [thr[t] EXCEPT !.pc = "p231"]]
    /\ api_result' = IF original_notes = <<>> THEN ResultAfter(t, "none") ELSE api_result
    /\ UNCHANGED <<loadVars, cfgVars, twin, devVars, histVars, is_playing, start_time, now, in_buffer,
                   sent_on, sent_off, timers, timer_failed, spawned, in_start>>

\* a selection that also moves the first note of the melody to its end
P231Rotating(t) ==
    /\ thr[t].pc = "p231"
    /\ thr' = [thr EXCEPT ![t].pc = "p232r", ![t].note_event = melody_index]
    /\ selected' = Append(selected, melody_index)
    /\ original_notes' = Tail(original_notes) \o <<Head(original_notes)>>
    /\ UNCHANGED <<midi_data, constructed, load_failed, tempo, cfgVars, twin, devVars,
                   is_playing, start_time, melody_index, now, in_buffer, sent_on, sent_off,
                   timers, timer_failed, spawned, in_start, api_result, start_fails,
                   stop_calls, events, completed>>

\* line 231: note_event = self.original_notes[self.melody_index]
P231(t) ==
    /\ thr[t].pc = "p231"
    /\ thr' = [thr EXCEPT ![t].pc = "p232r", ![t].note_event = melody_index]
    /\ selected' = Append(selected, melody_index)
    /\ UNCHANGED <<loadVars, cfgVars, twin, devVars, is_playing, start_time, melody_index, now,
                   in_buffer, sent_on, sent_off, timers, timer_failed, spawned, in_start, api_result,
                   start_fails, stop_calls, events, completed>>

\* line 232, the read of self.melody_index
P232r(t) ==
    /\ thr[t].pc = "p232r"
    /\ thr' = [thr EXCEPT ![t].pc = "p232w", ![t].idx = melody_index]
    /\ UNCHANGED <<loadVars, cfgVars, twin, devVars, histVars, is_playing, start_time, melody_index,
                   now, in_buffer, sent_on, sent_off, timers, timer_failed, spawned, in_start,
                   api_result>>

\* line 232, the store to self.melody_index
P232w(t) ==
    /\ thr[t].pc = "p232w"
    /\ melody_index' = next_index(thr[t].idx, Len(original_notes))
    /\ thr' = [thr EXCEPT ![t].pc = "p238", ![t].idx = None]
    /\ completed' = completed + 1
    /\ UNCHANGED <<loadVars, cfgVars, twin, devVars, is_playing, start_time, now, in_buffer, sent_on, sent_off,
                   timers, timer_failed, spawned, in_start, api_result, start_fails,
                   stop_calls, events, selected>>

\* a correction that sends the input back out
corrected_as_played(note_event, input) == <<input[1], input[2]>>

\* lines 234-235: corrected_note and corrected_velocity, for the note selected and
\* the arguments (input_note, velocity) of the call
corrected(note_event, input) == <<note_event.note, note_event.velocity>>

\* lines 234-245: the variation, then note_on and the Timer when there is an output
P238(t) ==
    /\ thr[t].pc = "p238"
    /\ \E draw \in RandomDraws :
          LET n == original_notes[thr[t].note_event + 1]
              c == corrected(n, thr[t].input)
              out == apply_randomness(c[1], c[2], draw)
              exc == IF midi_output # "None" /\ write_raises THEN "MidiException" ELSE "none"
          IN  /\ sent_on' = IF midi_output = "open"
                            THEN sent_on (+) SetToBag({out}) ELSE sent_on
              /\ timers' = IF midi_output = "open"
                           THEN timers (+) SetToBag({out[1]}) ELSE timers
              /\ thr' = [thr EXCEPT ![t] = [Returned(t, exc) EXCEPT !.note_event = None]]
              /\ api_result' = ResultAfter(t, exc)
    /\ UNCHANGED <<loadVars, cfgVars, twin, devVars, histVars, is_playing, start_time, melody_index,
                   now, in_buffer, sent_off, timer_failed, spawned, in_start>>

\* line 243: the Timer thread runs self.midi_output.note_off(note, 0)
TimerFire ==
    \E p \in BagToSet(timers) :
        /\ timers' = timers (-) SetToBag({p})
        /\ sent_off' = IF write_raises THEN sent_off ELSE sent_off (+) SetToBag({p})
        /\ timer_failed' = IF write_raises THEN timer_failed + 1 ELSE timer_failed
        /\ UNCHANGED <<loadVars, cfgVars, twin, devVars, histVars, is_playing, start_time, sent_on,
                       melody_index, now, in_buffer, thr, spawned, in_start, api_result>>

(***************************************************************************)
(* listen_for_input, run by each listener thread.                          *)
(***************************************************************************)
\* a loop test that never sees the flag cleared
ListenWhileTrue(w) ==
    /\ thr[w].pc = "while"
    /\ thr' = [thr EXCEPT ![w].pc = "poll"]
    /\ UNCHANGED <<loadVars, cfgVars, twin, devVars, histVars, is_playing, start_time, melody_index,
                   now, in_buffer, sent_on, sent_off, timers, timer_failed, spawned, in_start,
                   api_result>>

\* line 252: while self.is_playing
ListenWhile(w) ==
    /\ thr[w].pc = "while"
    /\ thr' = [thr EXCEPT ![w].pc = IF is_playing THEN "poll" ELSE "done"]
    /\ UNCHANGED <<loadVars, cfgVars, twin, devVars, histVars, is_playing, start_time, melody_index,
                   now, in_buffer, sent_on, sent_off, timers, timer_failed, spawned, in_start,
                   api_result>>

\* line 253: self.midi_input and self.midi_input.poll(); without messages, line 265
ListenPoll(w) ==
    /\ thr[w].pc = "poll"
    /\ thr' = [thr EXCEPT ![w].pc =
                  IF midi_input = "None" THEN "while"
                  ELSE IF poll_raises THEN "dead"
                  ELSE IF in_buffer # <<>> THEN "read" ELSE "while"]
    /\ UNCHANGED <<loadVars, cfgVars, twin, devVars, histVars, is_playing, start_time, melody_index,
                   now, in_buffer, sent_on, sent_off, timers, timer_failed, spawned, in_start,
                   api_result>>

\* line 254: midi_events = self.midi_input.read(10)
ListenRead(w) ==
    /\ thr[w].pc = "read"
    /\ LET k == Min(ReadBatch, Len(in_buffer))
       IN  IF read_raises
           THEN /\ thr' = [thr EXCEPT ![w].pc = "dead"]
                /\ UNCHANGED in_buffer
           ELSE /\ thr' = [thr EXCEPT ![w].pc = IF k = 0 THEN "while" ELSE "event",
                                       ![w].batch = SubSeq(in_buffer, 1, k)]
                /\ in_buffer' = SubSeq(in_buffer, k + 1, Len(in_buffer))
    /\ UNCHANGED <<loadVars, cfgVars, twin, devVars, histVars, is_playing, start_time, melody_index,
                   now, sent_on, sent_off, timers, timer_failed, spawned, in_start, api_result>>

\* a note-on test that forgets the velocity
is_note_on_any_velocity(m) == 144 <= m[1] /\ m[1] <= 159

\* line 262: the note-on test on (status, note, velocity)
is_note_on(m) == 144 <= m[1] /\ m[1] <= 159 /\ m[3] > 0

\* lines 256-263 for the next event of the batch: a note-on enters
\* process_input_note, anything else is skipped; after the last one, line 265
ListenEvent(w) ==
    /\ thr[w].pc = "event"
    /\ LET m == Head(thr[w].batch)
           rest == [thr EXCEPT ![w].batch = Tail(thr[w].batch)]
           next == [rest EXCEPT ![w].pc = IF rest[w].batch = <<>> THEN "while" ELSE "event"]
       IN  IF is_note_on(m)
           THEN thr' = [rest EXCEPT ![w] =
                              IF melody_index = None
                              THEN [rest[w] EXCEPT !.pc = "p225", !.input = <<m[2], m[3]>>]
                              ELSE IF original_notes = <<>> THEN next[w]
                              ELSE [rest[w] EXCEPT !.pc = "p231", !.input = <<m[2], m[3]>>]]
           ELSE thr' = next
    /\ UNCHANGED <<loadVars, cfgVars, twin, devVars, is_playing, start_time, melody_index, now,
                   in_buffer, sent_on, sent_off, timers, timer_failed, spawned, in_start, api_result,
                   start_fails, stop_calls, events, selected, completed>>

Next ==
    \/ DeviceRecv
    \/ StartRefused
    \/ StartOk
    \/ StopCompletes
    \/ StopRaises
    \/ CallDirect
    \/ TimerFire
    \/ \E t \in Threads : P225(t)
    \/ \E t \in Threads : P231(t)
    \/ \E t \in Threads : P232r(t)
    \/ \E t \in Threads : P232w(t)
    \/ \E t \in Threads : P238(t)
    \/ \E w \in Workers : ListenWhile(w)
    \/ \E w \in Workers : ListenPoll(w)
    \/ \E w \in Workers : ListenRead(w)
    \/ \E w \in Workers : ListenEvent(w)

Spec == Init /\ [][Next]_vars

(***************************************************************************)
(* SpecMain: the program as main() runs it (lines 302-317): one start(),   *)
(* the listener it creates as the only caller of process_input_note, and   *)
(* Ctrl+C, caught in the display loop, as the only stop().                 *)
(***************************************************************************)
\* line 315: system.start()
MainStart ==
    /\ spawned = 0
    /\ start_fails = 0
    /\ (StartOk \/ StartRefused)

\* lines 289-290: KeyboardInterrupt in the display loop calls self.stop()
MainInterrupt ==
    /\ in_start > 0
    /\ stop_calls = 0
    /\ StopCompletes

NextMain ==
    \/ MainStart
    \/ MainInterrupt
    \/ StartReturn
    \/ DeviceRecv
    \/ TimerFire
    \/ \E t \in Threads : P225(t)
    \/ \E t \in Threads : P231(t)
    \/ \E t \in Threads : P232r(t)
    \/ \E t \in Threads : P232w(t)
    \/ \E t \in Threads : P238(t)
    \/ \E w \in Workers : ListenWhile(w)
    \/ \E w \in Workers : ListenPoll(w)
    \/ \E w \in Workers : ListenRead(w)
    \/ \E w \in Workers : ListenEvent(w)

SpecMain == Init /\ [][NextMain]_vars

\* a step of listener thread w: listen_for_input and the process_input_note it calls
ListenerStep(w) ==
    \/ ListenWhile(w)
    \/ ListenPoll(w)
    \/ ListenRead(w)
    \/ ListenEvent(w)
    \/ P225(w)
    \/ P231(w)
    \/ P232r(w)
    \/ P232w(w)
    \/ P238(w)

\* SpecMain with the listener thread scheduled again and again: a started thread
\* that can take a step eventually takes one
SpecMainFair == SpecMain /\ \A w \in Workers : WF_vars(ListenerStep(w))

(***************************************************************************)
(* SpecFault: SpecMain with an input device that can fail while the        *)
(* session runs, after which poll() and read() raise.                      *)
(***************************************************************************)
\* the input device fails under an open handle
DeviceFails ==
    /\ is_playing
    /\ midi_input = "open"
    /\ midi_input' = "failed"
    /\ UNCHANGED <<loadVars, cfgVars, twin, histVars, midi_output, midi_inited, is_playing,
                   start_time, melody_index, now, in_buffer, sent_on, sent_off, timers,
                   timer_failed, thr, spawned, in_start, api_result>>

NextFault == NextMain \/ DeviceFails

SpecFault == Init /\ [][NextFault]_vars

(***************************************************************************)
(* SpecClock: the session life cycle with the clock running and the        *)
(* position queried, the input device staying silent.                      *)
(***************************************************************************)
NextClock ==
    \/ Tick
    \/ StartRefused
    \/ StartOk
    \/ StartReturn
    \/ StopCompletes
    \/ StopRaises
    \/ GetCurrentPosition
    \/ \E w \in Workers : ListenWhile(w)
    \/ \E w \in Workers : ListenPoll(w)

SpecClock == Init /\ [][NextClock]_vars

(***************************************************************************)
(* SpecMatch: find_closest_note as a function of its arguments, over a few *)
(* loaded melodies. Beats are thousandths of a beat, so a score is kept as *)
(* 10000 times the float the code computes: pitch_diff * 0.7 + beat_diff * *)
(* 0.3 becomes 7000 * pitch_diff + 3 * beat_diff.                          *)
(***************************************************************************)
MaxBar == 2   \* the largest current_bar asked for

Abs(x) == IF x < 0 THEN 0 - x ELSE x

\* three notes, two of them with the same pitch and beat in neighbouring bars
TiedNotes ==
    [readable |-> TRUE, tempi |-> <<120>>,
     instruments |-> << [is_drum |-> FALSE,
                         notes |-> << RawNote(60, 80, 500, 1000), RawNote(72, 80, 500, 1000),
                                      RawNote(60, 80, 2500, 3000) >>] >>]

MatchFiles == {TwoNotes, NoNotes, TiedNotes, Unreadable}
MatchPitches == {48, 60, 61, 66, 73, 90}
MatchBeats == {0, 500, 1000, 2000, 2001, 3500}

\* line 177: abs(note_event.bar - current_bar) <= 1
is_candidate(note_event, current_bar) == Abs(note_event.bar - current_bar) <= 1

\* lines 188-189: the pitch filter
pitch_filtered(note_event, input_note) ==
    Abs(note_event.note - input_note) > pitch_correction_range

\* lines 192-194: beat_diff > self.timing_tolerance * self.tempo / 60
beat_filtered(note_event, current_beat) ==
    Abs(note_event.beat - current_beat) * 60 > timing_tolerance * tempo

\* line 198: score = pitch_diff * 0.7 + beat_diff * 0.3
score_of(note_event, input_note, current_beat) ==
    7000 * Abs(note_event.note - input_note) + 3 * Abs(note_event.beat - current_beat)

\* a comparison that lets a later note of equal score replace the best one
improves_or_ties(score, best_index, best_score) == best_index = 0 \/ score <= best_score

\* line 200: score < best_score, best_score starting at infinity (best_index 0)
improves(score, best_index, best_score) == best_index = 0 \/ score < best_score

\* lines 185-203: the loop over the notes from position k on; the result is the
\* position in original_notes of best_note, 0 for None
RECURSIVE closest_from(_, _, _, _, _, _, _)
closest_from(notes, k, input_note, current_bar, current_beat, best_index, best_score) ==
    IF k > Len(notes) THEN best_index
    ELSE LET e == notes[k]
             sc == score_of(e, input_note, current_beat)
         IN  IF /\ is_candidate(e, current_bar)
                /\ ~pitch_filtered(e, input_note)
                /\ ~beat_filtered(e, current_beat)
                /\ improves(sc, best_index, best_score)
             THEN closest_from(notes, k + 1, input_note, current_bar, current_beat, k, sc)
             ELSE closest_from(notes, k + 1, input_note, current_bar, current_beat,
                               best_index, best_score)

\* lines 171-205
find_closest_note(input_note, current_bar, current_beat) ==
    closest_from(original_notes, 1, input_note, current_bar, current_beat, 0, 0)

InitMatch ==
    \E data \in MatchFiles, has_input \in BOOLEAN, has_output \in BOOLEAN :
        /\ Fields(data)
        /\ constructed = TRUE
        /\ original_notes = load_midi_file(data, DefaultTempo).notes
        /\ tempo = load_midi_file(data, DefaultTempo).tempo
        /\ load_failed = load_midi_file(data, DefaultTempo).failed
        /\ midi_inited = TRUE
        /\ midi_input = setup_midi_devices(has_input, has_output).input
        /\ midi_output = setup_midi_devices(has_input, has_output).output

\* a call of find_closest_note; the result records the arguments with the value
FindClosestNote ==
    /\ \E input_note \in MatchPitches, current_bar \in 0..MaxBar, current_beat \in MatchBeats :
          api_result' = [op |-> "find_closest_note", exc |-> "none", bar |-> None,
                         beat |-> None,
                         args |-> <<input_note, current_bar, current_beat>>,
                         value |-> find_closest_note(input_note, current_bar, current_beat)]
    /\ UNCHANGED <<loadVars, cfgVars, twin, devVars, histVars, is_playing, start_time, melody_index,
                   now, in_buffer, sent_on, sent_off, timers, timer_failed, thr, spawned, in_start>>

NextMatch == FindClosestNote

SpecMatch == InitMatch /\ [][NextMatch]_vars

(***************************************************************************)
(* SpecConfig: the correction parameters as DogMidiGUI.start_system sets   *)
(* them on a constructed system, and apply_randomness as a function of its *)
(* arguments, of the parameters and of what the random source returns.     *)
(***************************************************************************)
\* (tempo, timing_tolerance, pitch_range, randomness) as start_system can be given
\* them: the sliders' defaults, their two ends, and values beyond the sliders
ConfigInputs ==
    { [tempo |-> 120, timing_tolerance |-> 500, pitch_range |-> 12, randomness |-> 100],
      [tempo |-> 60, timing_tolerance |-> 100, pitch_range |-> 1, randomness |-> 0],
      [tempo |-> 200, timing_tolerance |-> 2000, pitch_range |-> 24, randomness |-> 1000],
      [tempo |-> 0, timing_tolerance |-> 500, pitch_range |-> 12, randomness |-> 1500],
      [tempo |-> 0 - 60, timing_tolerance |-> 500, pitch_range |-> 12, randomness |-> 0 - 100] }

\* what random.random() (in thousandths, 0 <= u < 1000) and the two randint calls
\* can return
AllDraws ==
    { [u |-> u, dn |-> dn, dv |-> dv] :
        u \in {0, 1, 99, 100, 999}, dn \in (0 - 2)..2, dv \in (0 - 10)..10 }

NoteSamples == {0, 1, 2, 60, 125, 126, 127}
VelocitySamples == {1, 5, 10, 11, 12, 64, 116, 117, 118, 127}

InitConfig ==
    /\ Init
    /\ midi_data = TwoNotes
    /\ midi_input = "open"
    /\ midi_output = "open"

\* dog_midi_gui.py lines 81-84: four attribute assignments, before anything is called
Configure ==
    /\ api_result.op = "none"
    /\ \E c \in ConfigInputs :
          /\ tempo' = c.tempo
          /\ timing_tolerance' = c.timing_tolerance
          /\ pitch_correction_range' = c.pitch_range
          /\ randomness_factor' = c.randomness
    /\ UNCHANGED <<midi_data, constructed, load_failed, original_notes, devVars, histVars, twin,
                   is_playing, start_time, melody_index, now, in_buffer, sent_on, sent_off,
                   timers, timer_failed, thr, spawned, in_start, api_result>>

\* the first call of apply_randomness; the result records the arguments, the factor
\* and the random values with the value
ApplyRandomness ==
    /\ api_result.op = "none"
    /\ \E note \in NoteSamples, velocity \in VelocitySamples, draw \in AllDraws :
          api_result' = [op |-> "apply_randomness", exc |-> "none", bar |-> None,
                         beat |-> None, args |-> <<note, velocity>>, draw |-> draw,
                         factor |-> randomness_factor,
                         value |-> apply_randomness(note, velocity, draw)]
    /\ UNCHANGED <<loadVars, cfgVars, twin, devVars, histVars, is_playing, start_time, melody_index,
                   now, in_buffer, sent_on, sent_off, timers, timer_failed, thr, spawned, in_start>>

NextConfig == Configure \/ ApplyRandomness

SpecConfig == InitConfig /\ [][NextConfig]_vars

(***************************************************************************)
(* SpecTwin: two runs of process_input_note side by side, over the same    *)
(* melody, from the same cursor, given the same values by the random       *)
(* source at every call and the same number of calls, each run with its    *)
(* own arguments. A run has one caller, so a call is lines 224-245 in      *)
(* sequence, the steps P225 .. P238 without interleaving.                  *)
(***************************************************************************)
\* lines 220-245 run by the only caller of a run: the run after one more call
process_input_note(run, input, draw) ==
    LET idx == IF run.melody_index = None THEN 0 ELSE run.melody_index
    IN  IF original_notes = <<>>
        THEN [run EXCEPT !.melody_index = idx, !.inputs = Append(run.inputs, input)]
        ELSE LET note_event == original_notes[idx + 1]
                 c == corrected(note_event, input)
                 out == apply_randomness(c[1], c[2], draw)
             IN  [melody_index |-> next_index(idx, Len(original_notes)),
                  sent |-> IF midi_output = "open" THEN Append(run.sent, out) ELSE run.sent,
                  inputs |-> Append(run.inputs, input)]

\* one more accepted trigger in both runs
TwinCall ==
    /\ events < MaxEvents
    /\ events' = events + 1
    /\ \E input_a \in DirectInputs, input_b \in DirectInputs, draw \in RandomDraws :
          twin' = [a |-> process_input_note(twin.a, input_a, draw),
                   b |-> process_input_note(twin.b, input_b, draw)]
    /\ UNCHANGED <<loadVars, cfgVars, devVars, is_playing, start_time, melody_index, now,
                   in_buffer, sent_on, sent_off, timers, timer_failed, thr, spawned, in_start,
                   api_result, start_fails, stop_calls, selected, completed>>

NextTwin == TwinCall

SpecTwin == Init /\ [][NextTwin]_vars

(***************************************************************************)
(* Properties of the load (SpecLoad).                                      *)
(***************************************************************************)

\* C6: after the session loads, the reference melody is non-empty whatever the
\* load outcome (an empty decoded note list also yields the fallback melody).
C6_MelodyNeverEmpty ==
    constructed => Len(original_notes) > 0

\* C7: when the source fails to load, the melody is exactly the fallback: 32 notes,
\* pitches 60,62,64,65,67,69,71,72 repeated 4 times, every velocity 80, and the
\* i-th note (from 0) starting at i * beatDuration.
C7_FallbackExact ==
    (constructed /\ (load_failed \/ ~midi_data.readable)) =>
        /\ Len(original_notes) = 32
        /\ original_notes[1].note = 60
        /\ original_notes[32].note = 72
        /\ \A i \in 0..31 :
              /\ original_notes[i + 1].note = <<60, 62, 64, 65, 67, 69, 71, 72>>[(i % 8) + 1]
              /\ original_notes[i + 1].velocity = 80
              /\ original_notes[i + 1].start_time * tempo = i * 60 * 1000

C7_Witness ==
    /\ constructed
    /\ ~midi_data.readable
    /\ load_failed
    /\ Len(original_notes) = 32

\* C8: every NoteEvent of the melody, decoded or fallback, has
\* bar = floor(totalBeats / beatsPerBar) and beat = totalBeats mod beatsPerBar,
\* with totalBeats = startTime / (60 / tempo), hence 0 <= beat < beatsPerBar.
C8_BarBeatFormula ==
    constructed =>
        \A k \in 1..Len(original_notes) :
            LET n == original_notes[k]
                totalBeats == (n.start_time * tempo) \div 60   \* thousandths of a beat
            IN  /\ n.bar = totalBeats \div 4000
                /\ n.beat = totalBeats % 4000
                /\ 0 <= n.beat /\ n.beat < 4000

\* the decoded notes of a file, in file order: all of them, or those of the
\* instruments that are not drums
RECURSIVE RawNoteList(_, _)
RawNoteList(instruments, with_drums) ==
    IF instruments = <<>> THEN <<>>
    ELSE (IF Head(instruments).is_drum /\ ~with_drums THEN <<>> ELSE Head(instruments).notes)
         \o RawNoteList(Tail(instruments), with_drums)

AsRaw(n) == RawNote(n.note, n.velocity, n.start_time, n.start_time + n.duration)

SortedByStart(notes) ==
    \A j, k \in 1..Len(notes) : j < k => notes[j].start_time <= notes[k].start_time

\* the notes of `notes` that start at s are the notes of `raw` that start at s, in
\* the same order
SameOrderAt(notes, raw, s) ==
    LET StartsAtS(n) == n.start = s
    IN  SelectSeq([k \in 1..Len(notes) |-> AsRaw(notes[k])], StartsAtS) = SelectSeq(raw, StartsAtS)

StableSortOf(notes, raw) ==
    /\ SortedByStart(notes)
    /\ Len(notes) = Len(raw)
    /\ \A s \in {raw[k].start : k \in 1..Len(raw)} : SameOrderAt(notes, raw, s)

CursorOf(k) == (k - 1) % Len(original_notes)

\* C1: over a non-empty melody of N notes, with the cursor starting at 0, the k-th
\* accepted trigger (process_input_note call) selects melody[(k-1) mod N]; the
\* (N+1)-th call selects the note the 1st selected.
C1_SequentialSelection ==
    original_notes # <<>> =>
        /\ \A k \in 1..Len(selected) : selected[k] = CursorOf(k)
        /\ Len(selected) > Len(original_notes) =>
              original_notes[selected[Len(original_notes) + 1] + 1]
                  = original_notes[selected[1] + 1]

C1_Witness ==
    /\ Len(original_notes) = 2
    /\ Len(selected) = Len(original_notes) + 1
    /\ completed = Len(selected)

\* C2: when two paths call process_input_note concurrently, after m calls in total
\* the cursor is m mod N and the calls selected melody[0], melody[1], ... in turn:
\* no advance is lost or duplicated, whatever the interleaving.
C2_NoLostOrDuplicatedAdvance ==
    (original_notes # <<>> /\ \A t \in Threads : thr[t].pc \notin {"p225", "p231", "p232r", "p232w"}) =>
        /\ completed = Len(selected)
        /\ completed > 0 => melody_index = completed % Len(original_notes)
        /\ \A k \in 1..Len(selected) : selected[k] = CursorOf(k)

(***************************************************************************)
(* Properties of the life cycle and of the clock (SpecClock).              *)
(***************************************************************************)

\* C3: start() without an input device fails with DeviceUnavailable reported to the
\* caller and leaves the session Idle: flag false, start instant unset, no worker.
C3_StartRefusedReported ==
    (midi_input = "None" /\ api_result.op = "start") =>
        /\ api_result.exc = "DeviceUnavailable"
        /\ ~is_playing
        /\ start_time = None
        /\ spawned = 0

\* C4: a second stop() does not raise and leaves the session in the terminal state
\* of the first: flag false, no handle open, and no handle closed a second time.
C4_StopTwiceIdempotent ==
    (stop_calls >= 2 /\ api_result.op = "stop") =>
        /\ api_result.exc = "none"
        /\ ~is_playing
        /\ midi_input # "open"
        /\ midi_output # "open"
        /\ ~midi_inited

\* C5: the session is Running only with devices acquired by the start() that made
\* it so: whenever it is Running, the input handle the listener polls is open.
C5_RunningHasOpenInput ==
    is_playing => midi_input = "open"

\* C10: get_current_position() before any successful start(), also after a start()
\* refused for lack of a device, returns exactly (0, 0.0).
C10_PositionBeforeStart ==
    (api_result.op = "get_current_position" /\ spawned = 0) =>
        /\ api_result.bar = 0
        /\ api_result.beat = 0

C10_Witness ==
    /\ api_result.op = "get_current_position"
    /\ spawned = 0
    /\ start_fails > 0
    /\ now > 1

(***************************************************************************)
(* Properties of find_closest_note (SpecMatch).                            *)
(***************************************************************************)
C11_Survivors ==
    { k \in 1..Len(original_notes) :
        /\ Abs(original_notes[k].bar - api_result.args[2]) <= 1
        /\ Abs(original_notes[k].note - api_result.args[1]) <= pitch_correction_range
        /\ Abs(original_notes[k].beat - api_result.args[3]) * 60 <= timing_tolerance * tempo }

C11_Score(k) ==
    7 * 1000 * Abs(original_notes[k].note - api_result.args[1])
        + 3 * Abs(original_notes[k].beat - api_result.args[3])

\* C11: find_closest_note returns, among the notes within one bar of the current bar
\* that pass the pitch-range and the beat-tolerance filters, the one of minimum
\* score 0.7 * pitchDiff + 0.3 * beatDiff, the earliest of the melody among equal
\* scores, and no note when none survives; a survivor of score 0 is never passed
\* over for a note of non-zero score.
C11_NearestMatch ==
    api_result.op = "find_closest_note" =>
        LET r == api_result.value
        IN  /\ (C11_Survivors = {}) <=> (r = 0)
            /\ r # 0 =>
                 /\ r \in C11_Survivors
                 /\ \A j \in C11_Survivors :
                       \/ C11_Score(r) < C11_Score(j)
                       \/ C11_Score(r) = C11_Score(j) /\ r <= j
                 /\ (\E j \in C11_Survivors : C11_Score(j) = 0) => C11_Score(r) = 0

\* a call answered with the earlier of two survivors of equal score, a note of
\* higher score surviving as well
C11_Witness ==
    /\ api_result.op = "find_closest_note"
    /\ api_result.value # 0
    /\ \E j \in C11_Survivors : j > api_result.value /\ C11_Score(j) = C11_Score(api_result.value)
    /\ \E j \in C11_Survivors : C11_Score(j) > C11_Score(api_result.value)

(***************************************************************************)
(* Properties of apply_randomness and of the parameters (SpecConfig).      *)
(***************************************************************************)

\* C12: with randomness factor 0, apply_randomness returns the pitch and the
\* velocity it was given, on every call and for every value of the random source.
C12_ZeroFactorIdentity ==
    (api_result.op = "apply_randomness" /\ api_result.factor = 0) =>
        api_result.value = api_result.args

\* a call under factor 0 where the random source returned its smallest value and
\* non-zero variations
C12_Witness ==
    /\ api_result.op = "apply_randomness"
    /\ api_result.factor = 0
    /\ api_result.draw.u = 0
    /\ api_result.draw.dn # 0
    /\ api_result.draw.dv # 0

\* C13: with randomness factor 1, for a pitch in 0..127 and a velocity in 1..127
\* and every draw, the result's pitch is in 0..127 and within 2 of the input, its
\* velocity in 1..127 and within 10 of the input, and no error is raised.
C13_VariationClamped ==
    (/\ api_result.op = "apply_randomness"
     /\ api_result.factor = 1000
     /\ api_result.args[1] \in 0..127
     /\ api_result.args[2] \in 1..127) =>
        /\ api_result.exc = "none"
        /\ api_result.value[1] \in 0..127
        /\ api_result.value[1] - api_result.args[1] \in (0 - 2)..2
        /\ api_result.value[2] \in 1..127
        /\ api_result.value[2] - api_result.args[2] \in (0 - 10)..10

\* a call under factor 1 where both clamps cut the variation
C13_Witness ==
    /\ api_result.op = "apply_randomness"
    /\ api_result.factor = 1000
    /\ api_result.args = <<127, 1>>
    /\ api_result.draw.dn = 2
    /\ api_result.draw.dv = 0 - 10
    /\ api_result.value = <<127, 1>>

\* C15: no session state holds a tempo <= 0 or a randomness factor outside [0, 1]
\* (an invalid configuration is rejected when it is given).
C15_ConfigValid ==
    /\ tempo > 0
    /\ randomness_factor >= 0
    /\ randomness_factor <= 1000

(***************************************************************************)
(* Properties of process_input_note over an empty melody (Spec).           *)
(***************************************************************************)

\* C14: process_input_note over an empty melody fails with EmptyMelody reported to
\* the caller, emits no note-on and no note-off, and leaves the cursor at 0.
C14_EmptyMelodyReported ==
    (original_notes = <<>> /\ api_result.op = "process_input_note") =>
        /\ api_result.exc = "EmptyMelody"
        /\ sent_on = EmptyBag
        /\ sent_off = EmptyBag
        /\ timers = EmptyBag
        /\ melody_index \in {None, 0}

(***************************************************************************)
(* Properties of the listener (SpecMain).                                  *)
(***************************************************************************)

\* C16: the listener forwards a raw message to process_input_note if and only if
\* its status is in 144..159 and its velocity is greater than 0; any other message
\* is discarded: nothing is emitted or scheduled and the cursor stays where it is.
C16_ForwardOnlyNoteOn ==
    [][\A w \in Workers :
          (thr[w].pc = "event" /\ thr'[w] # thr[w]) =>
              IF Head(thr[w].batch)[1] \in 144..159 /\ Head(thr[w].batch)[3] > 0
              THEN original_notes # <<>> => thr'[w].pc \in {"p225", "p231"}
              ELSE /\ thr'[w].pc \in {"while", "event"}
                   /\ UNCHANGED <<melody_index, selected, completed, sent_on, sent_off,
                                  timers>>]_vars

\* two messages consumed by the listener, one of them forwarded and one discarded
C16_Witness ==
    /\ spawned = 1
    /\ events = 2
    /\ in_buffer = <<>>
    /\ thr[1].batch = <<>>
    /\ thr[1].pc \in {"while", "poll"}
    /\ Len(selected) = 1
    /\ completed = 1

\* C17: once stop() has cleared the running flag, the listener starts no polling
\* iteration beyond the one in progress (its next loop test ends it), and it
\* eventually terminates in every execution.
C17_ListenerStops ==
    /\ [][\A w \in Workers :
             (stop_calls > 0 /\ thr[w].pc = "while") => thr'[w].pc \in {"while", "done"}]_vars
    /\ (stop_calls > 0) ~> (\A w \in Workers : thr[w].pc \in {"unborn", "done", "dead"})

\* stop() was called and the listener has left its loop at the loop test
C17_Witness ==
    /\ stop_calls > 0
    /\ spawned = 1
    /\ thr[1].pc = "done"

(***************************************************************************)
(* Properties of the deferred note-off (SpecMain).                         *)
(***************************************************************************)

\* C18: every note-on delivered to the output has exactly one note-off for the same
\* (post-variation) pitch, either still scheduled or delivered: with no note-off
\* pending, the note-offs delivered are the pitches of the note-ons delivered.
C18_NoteOffForEveryNoteOn ==
    BagOfAll(LAMBDA e : e[1], sent_on) = timers (+) sent_off

\* C19: a deferred note-off that fires after stop() closed the output is contained:
\* no timer thread ends with an uncaught error.
C19_TimerFailureContained ==
    timer_failed = 0

(***************************************************************************)
(* Properties of the listener under a device failure (SpecFault).          *)
(***************************************************************************)

\* C20: no state has the session running (is_playing true) while a listener thread
\* has died: a device failure inside the listener either leaves it polling or
\* stops the session.
C20_RunningHasLiveListener ==
    is_playing => \A w \in Workers : thr[w].pc # "dead"

(***************************************************************************)
(* Properties of two runs side by side (SpecTwin).                         *)
(***************************************************************************)

\* C21: two runs over the same melody, from the same cursor, with the same random
\* source and the same number of accepted triggers, given different input pitches
\* and velocities, produce the same sequence of outputs and end on the same cursor.
C21_InputIgnored ==
    /\ twin.a.sent = twin.b.sent
    /\ twin.a.melody_index = twin.b.melody_index

\* two runs of three calls that never got the same arguments, with outputs, the
\* cursor wrapped to 1 over the two notes
C21_Witness ==
    /\ Len(twin.a.inputs) = 3
    /\ \A k \in 1..3 : twin.a.inputs[k] # twin.b.inputs[k]
    /\ Len(twin.a.sent) = 3
    /\ twin.a.sent[1] # twin.a.sent[3]
    /\ twin.a.melody_index = 1

(***************************************************************************)
(* Frame of process_input_note and of the melody (SpecMain).               *)
(***************************************************************************)

\* C22: a step of process_input_note leaves the reference melody (length, order,
\* every NoteEvent), the tempo, the start instant and the correction parameters
\* unchanged, and no step of any operation changes the melody once it is loaded.
\* (The time signature is the definition beats_per_bar, which nothing can change.)
C22_OnlyCursorChanges ==
    [][/\ constructed => original_notes' = original_notes
       /\ (\E t \in Threads :
              /\ thr[t].pc \in {"p225", "p231", "p232r", "p232w", "p238"}
              /\ thr'[t] # thr[t])
          => UNCHANGED <<original_notes, tempo, start_time, timing_tolerance,
                         pitch_correction_range, randomness_factor>>]_vars

\* a call has moved the cursor and sent a note, the melody being the one loaded
C22_Witness ==
    /\ completed >= 1
    /\ melody_index = 1
    /\ sent_on # EmptyBag
    /\ original_notes = load_midi_file(midi_data, DefaultTempo).notes
    /\ Len(original_notes) = 2
    /\ start_time # None

(***************************************************************************)
(* Listeners and device handles over the life cycle (SpecClock).           *)
(***************************************************************************)

\* C23: over every interleaving of start(), stop() and the listener loop, at most
\* one listener thread is in its loop at any time, and no listener has polled, read
\* or written a device handle after stop() closed it (which ends the thread on the
\* exception of the closed handle).
C23_OneListenerNoClosedHandle ==
    /\ Cardinality({w \in Workers : thr[w].pc \notin {"unborn", "done", "dead"}}) <= 1
    /\ \A w \in Workers : thr[w].pc # "dead"

====
